---- MODULE Spec2Model ----
(***************************************************************************)
(* A model of src/optim_placement/pix2vid.py: class SpatiotemporalCO2.     *)
(*                                                                         *)
(* Arrays are records [shape, at]: shape is the numpy shape, at holds the   *)
(* elements in C order (the order of the array's memory); At(a, ix) is the *)
(* element at the zero-based index tuple ix.  Raw data are integers;       *)
(* min-max scaled data are exact rationals <<n, d>> in lowest terms        *)
(* (floating-point rounding is not modelled).                              *)
(***************************************************************************)
EXTENDS Integers, Sequences, FiniteSets, TLC

VARIABLES
    pc,          \* where the instance is in its life: new, raised, constructed, ...
    error,       \* the exception the last call raised, "" when it returned
    classAttrs,  \* the names attribute lookup resolves on the instance's class
    attrs,       \* the instance __dict__: attribute name |-> kind of object bound
    cfg,         \* the configuration attributes' values (lines 63-69)
    files,       \* the .npy files on disk, per sample index
    X_data,      \* self.X_data
    y_data,      \* self.y_data
    X_norm,      \* self.X_norm
    y_norm,      \* self.y_norm
    train_idx,   \* row of X_norm / y_norm behind each row of X_train / y_train
    test_idx,    \* row of X_norm / y_norm behind each row of X_test / y_test
    noise,       \* a direct call of apply_noise: its argument, progress and result
    graph,       \* the layer graph make_model builds
    call,        \* the arguments of the last call of process_data
    local        \* process_data's local x and y while a call is between its steps

vars == <<pc, error, classAttrs, attrs, cfg, files, X_data, y_data, X_norm, y_norm,
          train_idx, test_idx, noise, graph, call, local>>

---------------------------------------------------------------------------
(* Bounds of the model *)

\* self.n_samples ranges over 1..MaxSamples (the code's default is 1000)
MaxSamples == 2
\* the scaled-down image side standing for self.dim (the default is 64)
SmallDim == 2
\* the scaled-down frame count standing for self.timesteps (the default is 60)
SmallSteps == 4
\* coefficients of the synthetic datasets range over 0..MaxCoef
MaxCoef == 1
\* n_subsample ranges over None and 1..MaxSubsample
MaxSubsample == 3
\* the batch size of the inputs make_model is built for ranges over 1..MaxBatch
MaxBatch == 4

---------------------------------------------------------------------------
(* Exact rationals *)

RECURSIVE Gcd(_, _)
Gcd(a, b) == IF b = 0 THEN a ELSE Gcd(b, a % b)

Abs(a) == IF a < 0 THEN -a ELSE a

\* n/d in lowest terms with a positive denominator (d # 0)
Rat(n, d) ==
    LET g == Gcd(Abs(n), Abs(d))
        s == IF d < 0 THEN -1 ELSE 1
    IN  <<s * (n \div g), s * (d \div g)>>

RInt(n) == <<n, 1>>
RLeq(p, q) == p[1] * q[2] <= q[1] * p[2]
RAdd(p, q) == Rat(p[1] * q[2] + q[1] * p[2], p[2] * q[2])
RMul(p, q) == Rat(p[1] * q[1], p[2] * q[2])
RZero == RInt(0)
ROne == RInt(1)

---------------------------------------------------------------------------
(* numpy arrays *)

RECURSIVE Indices(_)
Indices(shape) ==
    IF shape = <<>> THEN {<<>>}
    ELSE {<<i>> \o r : i \in 0..(shape[1] - 1), r \in Indices(Tail(shape))}

RECURSIVE Size(_)
Size(shape) == IF shape = <<>> THEN 1 ELSE shape[1] * Size(Tail(shape))

\* the position of index tuple ix in C order
RECURSIVE Ravel(_, _)
Ravel(ix, shape) ==
    IF shape = <<>> THEN 0
    ELSE ix[1] * Size(Tail(shape)) + Ravel(Tail(ix), Tail(shape))

\* the index tuple at position k in C order
RECURSIVE Unravel(_, _)
Unravel(k, shape) ==
    IF shape = <<>> THEN <<>>
    ELSE LET s == Size(Tail(shape))
         IN  <<k \div s>> \o Unravel(k % s, Tail(shape))

\* the sequence <<f(lo), ..., f(hi)>>, built element by element
RECURSIVE Elements(_, _, _)
Elements(f(_), lo, hi) ==
    IF lo > hi THEN <<>>
    ELSE IF lo = hi THEN <<f(lo)>>
    ELSE LET mid == (lo + hi) \div 2
         IN  Elements(f, lo, mid) \o Elements(f, mid + 1, hi)

\* the array of the given shape whose element at ix is f(ix)
Array(shape, f(_)) ==
    [shape |-> shape,
     at |-> Elements(LAMBDA k : f(Unravel(k - 1, shape)), 1, Size(shape))]

\* a[ix]
At(a, ix) == a.at[Ravel(ix, a.shape) + 1]

\* the value of an attribute that is not bound
Unbound == [shape |-> <<0>>, at |-> <<>>]

\* np.zeros(shape)
Zeros(shape) == Array(shape, LAMBDA ix : 0)

\* a.reshape(shape): the same elements in the same C order
Reshape(a, shape) == [shape |-> shape, at |-> a.at]

\* the sequence s with the element at position p moved to the end
MoveToEnd(s, p) ==
    Elements(LAMBDA k : IF k < p THEN s[k] ELSE IF k < Len(s) THEN s[k + 1] ELSE s[p],
             1, Len(s))

\* the sequence s with its last element moved to position p
MoveFromEnd(s, p) ==
    Elements(LAMBDA k : IF k < p THEN s[k] ELSE IF k = p THEN s[Len(s)] ELSE s[k - 1],
             1, Len(s))

\* np.moveaxis(a, axis, -1); axis is zero-based
MoveAxisLast(a, axis) ==
    Array(MoveToEnd(a.shape, axis + 1),
          LAMBDA ix : At(a, MoveFromEnd(ix, axis + 1)))

\* np.concatenate([a, b], axis=0)
Concat0(a, b) ==
    Array(<<a.shape[1] + b.shape[1]>> \o Tail(a.shape),
          LAMBDA ix : IF ix[1] < a.shape[1] THEN At(a, ix)
                      ELSE At(b, <<ix[1] - a.shape[1]>> \o Tail(ix)))

\* a[rows] for a sequence of row indices (fancy indexing on axis 0)
TakeRows(a, rows) ==
    Array(<<Len(rows)>> \o Tail(a.shape),
          LAMBDA ix : At(a, <<rows[ix[1] + 1]>> \o Tail(ix)))

\* a[:, ts] for a sequence of indices on axis 1; a negative index counts from the end
TakeAxis1(a, ts) ==
    Array(<<a.shape[1], Len(ts)>> \o Tail(Tail(a.shape)),
          LAMBDA ix : LET t == ts[ix[2] + 1]
                          u == IF t < 0 THEN t + a.shape[2] ELSE t
                      IN  At(a, <<ix[1], u>> \o Tail(Tail(ix))))

\* the sequence s with the elements at positions p and q exchanged
Swap(s, p, q) ==
    Elements(LAMBDA k : IF k = p THEN s[q] ELSE IF k = q THEN s[p] ELSE s[k], 1, Len(s))

\* np.flip(a, axis); axis is zero-based
Flip(a, axis) ==
    Array(a.shape,
          LAMBDA ix : At(a, [ix EXCEPT ![axis + 1] = a.shape[axis + 1] - 1 - @]))

\* np.transpose(a, axes) for the axes list that exchanges axes a0 and a1
SwapAxes(a, a0, a1) ==
    Array(Swap(a.shape, a0 + 1, a1 + 1), LAMBDA ix : At(a, Swap(ix, a0 + 1, a1 + 1)))

\* np.rot90(m, k, axes=(a0, a1)) as numpy computes it
Rot90(m, k, a0, a1) ==
    LET kk == k % 4
    IN  IF kk = 0 THEN m
        ELSE IF kk = 2 THEN Flip(Flip(m, a0), a1)
        ELSE IF kk = 1 THEN SwapAxes(Flip(m, a1), a0, a1)
        ELSE Flip(SwapAxes(m, a0, a1), a1)

---------------------------------------------------------------------------
(* __init__ *)

\* the methods the class body defines (lines 50-413)
ClassMethods ==
    {"__init__", "check_tf", "encoder_layer", "recurrent_decoder", "make_model",
     "load_data", "apply_noise", "process_data", "load_preprocessed_xy_train_test",
     "plot_features", "plot_targets", "plot_data", "plot_single_results",
     "latent_space", "feature_map_animation", "cumulative_co2"}

\* the attributes __init__ binds before it reads self.custom_loss (lines 52-77)
AttrsBeforeCriterion ==
    [a \in {"input_features_dir", "output_targets_dir"} |-> "str"]
    @@ [a \in {"x_data_labels", "y_data_labels", "x_cmaps", "y_cmaps",
               "latent_cmap", "t_samples", "cnn_filters", "rnn_filters"} |-> "list"]
    @@ [a \in {"err_cmap", "up_interp"} |-> "str"]
    @@ [a \in {"return_data", "save_model"} |-> "bool"]
    @@ [a \in {"n_samples", "x_channels", "y_channels", "timesteps", "dim",
               "conv_groups"} |-> "int"]
    @@ [a \in {"test_size", "rnn_dropout"} |-> "float"]
    @@ [a \in {"optimizer"} |-> "AdamW"]

\* the attributes __init__ binds from line 78 on
AttrsFromCriterion ==
    [a \in {"criterion"} |-> "method"]
    @@ [a \in {"L1L2_split", "ridge_alpha", "leaky_slope", "valid_split"} |-> "float"]
    @@ [a \in {"regular"} |-> "L1"]
    @@ [a \in {"num_epochs", "batch_size", "lr_decay", "verbose"} |-> "int"]

\* the values __init__ gives the configuration attributes the data pipeline reads
DefaultConfig ==
    [n_samples  |-> 1000,
     x_channels |-> 4,
     y_channels |-> 2,
     timesteps  |-> 60,
     dim        |-> 64,
     test_size  |-> <<1, 4>>,
     t_samples  |-> <<0, 6, 12, 18, 24, 30, 36, 42, 48, 54, 60>>]

\* self.<name> read on an instance: the instance __dict__, then the class
Resolves(name, cls, inst) == name \in DOMAIN inst \/ name \in cls

\* proxy = SpatiotemporalCO2(): every assignment of __init__ in order; the read
\* of self.custom_loss on line 78 raises AttributeError when it does not resolve
Construct ==
    /\ pc = "new"
    /\ IF Resolves("custom_loss", classAttrs, AttrsBeforeCriterion)
       THEN /\ attrs' = AttrsBeforeCriterion @@ AttrsFromCriterion
            /\ pc' = "constructed"
            /\ error' = ""
       ELSE /\ attrs' = AttrsBeforeCriterion
            /\ pc' = "raised"
            /\ error' = "AttributeError"
    /\ cfg' = DefaultConfig
    /\ UNCHANGED <<classAttrs, files, X_data, y_data, X_norm, y_norm,
                   train_idx, test_idx, noise, graph, call, local>>

---------------------------------------------------------------------------
(* The caller's configuration and the files on disk *)

\* t_samples laid out as the default is: every stride-th frame from 0 to steps
TimeGrid(steps, stride) ==
    Elements(LAMBDA k : (k - 1) * stride, 1, (steps \div stride) + 1)

\* the configurations the caller assigns before loading: scaled-down ones, and
\* the default time axis (60 frames, the default t_samples) on one sample of one
\* pixel
Configs ==
    {[DefaultConfig EXCEPT !.n_samples = n, !.dim = SmallDim,
                           !.timesteps = SmallSteps,
                           !.t_samples = TimeGrid(SmallSteps, 2)] : n \in 1..MaxSamples}
    \cup {[DefaultConfig EXCEPT !.n_samples = 1, !.dim = 1]}

\* proxy.n_samples = ..., proxy.dim = ..., ...: plain attribute assignment
Configure ==
    /\ pc = "constructed"
    /\ \E c \in Configs : cfg' = c
    /\ pc' = "configured"
    /\ UNCHANGED <<error, classAttrs, attrs, files, X_data, y_data, X_norm, y_norm,
                   train_idx, test_idx, noise, graph, call, local>>

\* the shapes the configuration declares for one sample's files (channels first)
XFileShape(c) == <<c.x_channels, c.dim, c.dim>>
YFileShape(c) == <<c.timesteps, c.y_channels, c.dim, c.dim>>

\* the k-th coordinate of ix counted from the end, 0 when ix is shorter
FromEnd(ix, k) == IF k <= Len(ix) THEN ix[Len(ix) + 1 - k] ELSE 0

\* a synthetic dataset: the element of sample i at (t, c, h, w)
GenValue(g, c, i, ix) ==
    g.a * i + g.b * FromEnd(ix, 4) + g.d * (FromEnd(ix, 2) * c.dim + FromEnd(ix, 1))
    + FromEnd(ix, 3)

Generators == [a : 0..MaxCoef, b : 0..MaxCoef, d : 0..MaxCoef]

\* what a file can be instead of an array of the declared shape
FaultKinds == {"missing", "squeezed", "single", "longer"}

FaultyShape(shape, kind) ==
    IF kind = "squeezed" THEN Tail(shape)
    ELSE IF kind = "single" THEN <<1>> \o Tail(shape)
    ELSE IF kind = "longer" THEN <<shape[1] + 1>> \o Tail(shape)
    ELSE shape

NpyFile(g, c, i, shape) ==
    [present |-> TRUE, arr |-> Array(shape, LAMBDA ix : GenValue(g, c, i, ix))]

MissingFile == [present |-> FALSE, arr |-> Unbound]

\* no fault, or one faulty file
Faults(c) ==
    {[i |-> -1, which |-> "x", kind |-> "none"]}
    \cup [i : 0..(c.n_samples - 1), which : {"x", "y"}, kind : FaultKinds]

FileOf(g, c, i, which, fault) ==
    LET shape == IF which = "x" THEN XFileShape(c) ELSE YFileShape(c)
        hit   == fault.i = i /\ fault.which = which
    IN  IF hit /\ fault.kind = "missing" THEN MissingFile
        ELSE NpyFile(g, c, i, IF hit THEN FaultyShape(shape, fault.kind) ELSE shape)

\* the directories input_features_dir and output_targets_dir, written for
\* configuration c
Dataset(g, c, fault) ==
    [i \in 0..(c.n_samples - 1) |->
        [x |-> FileOf(g, c, i, "x", fault), y |-> FileOf(g, c, i, "y", fault)]]

FileSystems ==
    UNION {{Dataset(g, c, f) : g \in Generators, f \in Faults(c)} : c \in Configs}

---------------------------------------------------------------------------
(* load_data *)

FileAt(fs, i, which) == IF i \in DOMAIN fs THEN fs[i][which] ELSE MissingFile

\* shape with leading axes of length 1 dropped while it has more than n axes
RECURSIVE StripOnes(_, _)
StripOnes(shape, n) ==
    IF Len(shape) > n /\ shape[1] = 1 THEN StripOnes(Tail(shape), n) ELSE shape

\* numpy's rule for dst[i] = src: src broadcasts to the shape of the row
CanStore(src, row) ==
    LET s == StripOnes(src, Len(row))
    IN  /\ Len(s) <= Len(row)
        /\ \A k \in 1..Len(s) : s[k] = 1 \/ s[k] = row[k + Len(row) - Len(s)]

\* the exception of `data[i] = np.load(path)`, "" when the row is stored
AssignError(file, row) ==
    IF ~file.present THEN "FileNotFoundError"
    ELSE IF ~CanStore(file.arr.shape, row) THEN "ValueError"
    ELSE ""

\* the index into src that broadcasting reads for index ix of the row
SrcIndex(ix, src) ==
    Elements(LAMBDA k : LET pos == k + Len(ix) - Len(src)
                        IN  IF pos < 1 \/ src[k] = 1 THEN 0 ELSE ix[pos],
             1, Len(src))

\* the element at ix of the pre-allocated row after `data[i] = np.load(path)`
StoredElement(file, row, ix) ==
    IF file.present /\ AssignError(file, row) = "" THEN At(file.arr, SrcIndex(ix, file.arr.shape))
    ELSE 0

\* the exception that ends the loop of lines 174-176 from sample i on, "" if none
RECURSIVE LoopError(_, _, _)
LoopError(fs, c, i) ==
    IF i >= c.n_samples THEN ""
    ELSE LET ex == AssignError(FileAt(fs, i, "x"), XFileShape(c))
             ey == AssignError(FileAt(fs, i, "y"), YFileShape(c))
         IN  IF ex # "" THEN ex
             ELSE IF ey # "" THEN ey
             ELSE LoopError(fs, c, i + 1)

\* the local X_data and y_data when the loop has run to its end
LoadedX(fs, c) ==
    Array(<<c.n_samples>> \o XFileShape(c),
          LAMBDA ix : StoredElement(FileAt(fs, ix[1], "x"), XFileShape(c), Tail(ix)))

LoadedY(fs, c) ==
    Array(<<c.n_samples>> \o YFileShape(c),
          LAMBDA ix : StoredElement(FileAt(fs, ix[1], "y"), YFileShape(c), Tail(ix)))

\* attrs with the names in names bound to objects of the given kind
Bind(inst, names, kind) ==
    [a \in DOMAIN inst \cup names |-> IF a \in names THEN kind ELSE inst[a]]

\* load_data that drops the arrays of an earlier load when it fails
LoadDataOnClearing(fs) ==
    LET err == LoopError(fs, cfg, 0)
    IN  IF err = ""
        THEN /\ X_data' = MoveAxisLast(LoadedX(fs, cfg), 1)
             /\ y_data' = MoveAxisLast(LoadedY(fs, cfg), 2)
             /\ attrs' = Bind(attrs, {"X_data", "y_data"}, "ndarray")
             /\ pc' = "loaded"
             /\ error' = ""
        ELSE /\ pc' = "load_failed"
             /\ error' = err
             /\ X_data' = Unbound
             /\ y_data' = Unbound
             /\ UNCHANGED attrs

\* what load_data does to the instance when the disk holds fs
LoadDataOn(fs) ==
    LET err == LoopError(fs, cfg, 0)
    IN  IF err = ""
        THEN /\ X_data' = MoveAxisLast(LoadedX(fs, cfg), 1)
             /\ y_data' = MoveAxisLast(LoadedY(fs, cfg), 2)
             /\ attrs' = Bind(attrs, {"X_data", "y_data"}, "ndarray")
             /\ pc' = "loaded"
             /\ error' = ""
        ELSE /\ pc' = "load_failed"
             /\ error' = err
             /\ UNCHANGED <<X_data, y_data, attrs>>

\* proxy.load_data()
LoadData ==
    /\ pc \in {"constructed", "configured"}
    /\ LoadDataOn(files)
    /\ UNCHANGED <<classAttrs, cfg, files, X_norm, y_norm, train_idx, test_idx,
                   noise, graph, call, local>>

\* one sample file is removed from disk and proxy.load_data() is called again
Reload ==
    /\ pc = "loaded"
    /\ \E i \in DOMAIN files, which \in {"x", "y"} :
          /\ files[i][which].present
          /\ files' = [files EXCEPT ![i][which] = MissingFile]
    /\ LoadDataOn(files')
    /\ UNCHANGED <<classAttrs, cfg, X_norm, y_norm, train_idx, test_idx,
                   noise, graph, call, local>>

---------------------------------------------------------------------------
(* apply_noise *)

\* the modes skimage's random_noise supports
NoiseTypes == {"gaussian", "localvar", "poisson", "salt", "pepper", "s&p", "speckle"}

\* the perturbations one call of random_noise may draw for an image
NoiseDraws == {<<-1, 2>>, <<1, 2>>}

RClip(v, lo, hi) == IF RLeq(v, lo) THEN lo ELSE IF RLeq(hi, v) THEN hi ELSE v

\* one pixel of random_noise(image, mode): v is the pixel, d the perturbation
\* drawn, low the lower clip (-1 when the image has a negative pixel, else 0)
NoisyPixel(v, mode, d, low) ==
    IF mode \in {"gaussian", "localvar", "poisson"} THEN RClip(RAdd(v, d), low, ROne)
    ELSE IF mode = "speckle" THEN RClip(RAdd(v, RMul(v, d)), low, ROne)
    ELSE IF mode = "salt" THEN (IF RLeq(RZero, d) THEN ROne ELSE v)
    ELSE IF mode = "pepper" THEN (IF RLeq(RZero, d) THEN low ELSE v)
    ELSE (IF RLeq(RZero, d) THEN ROne ELSE low)

\* the lower clip random_noise uses for image_array[i, :, :, c]
LowClip(image_array, i, c) ==
    IF \E ix \in Indices(image_array.shape) :
           /\ ix[1] = i
           /\ ix[4] = c
           /\ ~RLeq(RZero, At(image_array, ix))
    THEN RInt(-1) ELSE RZero

\* a pass of the loop that leaves the last channel as np.zeros_like made it
NoiseIterationNoCopy(noisy_array, image_array, i, noise_type, draw) ==
    LET last == image_array.shape[4] - 1
        low  == Elements(LAMBDA k : LowClip(image_array, i, k - 1), 1, last)
    IN  Array(image_array.shape,
              LAMBDA ix :
                 IF ix[1] = i /\ ix[4] # last
                 THEN NoisyPixel(At(image_array, ix), noise_type,
                                 draw[ix[4]], low[ix[4] + 1])
                 ELSE At(noisy_array, ix))

\* One pass of the loop over i (lines 182-188): the non-well channels of sample
\* i get random_noise's output, then the last channel of every sample is
\* copied from image_array.  draw[c] is what random_noise draws for channel c.
NoiseIteration(noisy_array, image_array, i, noise_type, draw) ==
    LET last == image_array.shape[4] - 1
        low  == Elements(LAMBDA k : LowClip(image_array, i, k - 1), 1, last)
    IN  Array(image_array.shape,
              LAMBDA ix :
                 IF ix[4] = last THEN At(image_array, ix)
                 ELSE IF ix[1] = i
                      THEN NoisyPixel(At(image_array, ix), noise_type,
                                      draw[ix[4]], low[ix[4] + 1])
                      ELSE At(noisy_array, ix))

\* the loop from sample i on; rng[i] is the draw of pass i
RECURSIVE NoiseLoop(_, _, _, _, _)
NoiseLoop(noisy_array, image_array, i, noise_type, rng) ==
    IF i >= image_array.shape[1] THEN noisy_array
    ELSE NoiseLoop(NoiseIteration(noisy_array, image_array, i, noise_type, rng[i]),
                   image_array, i + 1, noise_type, rng)

\* np.zeros_like(a) for an array of floats
ZerosLike(a) == Array(a.shape, LAMBDA ix : RZero)

\* apply_noise(image_array, noise_type) for a supported noise_type
ApplyNoise(image_array, noise_type, rng) ==
    NoiseLoop(ZerosLike(image_array), image_array, 0, noise_type, rng)

\* A direct call apply_noise(image_array, noise_type), one pass of its loop at
\* a time.  The images are 1 x 2 pixels of up to 3 channels; pixel values run
\* over halves from -1 to 5/2, so that clipping and the low clip both occur.
NoiseImages ==
    {Array(<<n, 1, 2, channels>>,
           LAMBDA ix : Rat(ix[1] + 2 * ix[3] + ix[4] - shift, 2)) :
        n \in 1..MaxSamples, channels \in 1..3, shift \in 0..2}

\* what random_noise may draw for the non-well channels in one pass
PassDraws(image_array) == [0..(image_array.shape[4] - 2) -> NoiseDraws]

NoNoise == [at |-> "idle", image_array |-> Unbound, noise_type |-> "",
            noisy_array |-> Unbound, i |-> 0]

\* line 181: noisy_array = np.zeros_like(image_array)
NoiseEnter ==
    /\ noise.at = "called"
    /\ noise' = [noise EXCEPT !.at = "looping", !.i = 0,
                              !.noisy_array = ZerosLike(noise.image_array)]
    /\ UNCHANGED <<pc, error, classAttrs, attrs, cfg, files, X_data, y_data,
                   X_norm, y_norm, train_idx, test_idx, graph, call, local>>

\* lines 182-188: one pass of the loop over i.  random_noise rejects a mode it
\* does not know, which happens when there is a non-well channel to call it for
NoisePass ==
    /\ noise.at = "looping"
    /\ noise.i < noise.image_array.shape[1]
    /\ IF noise.noise_type \notin NoiseTypes /\ noise.image_array.shape[4] > 1
       THEN /\ noise' = [noise EXCEPT !.at = "raised"]
            /\ error' = "ValueError"
       ELSE /\ \E draw \in PassDraws(noise.image_array) :
                  noise' = [noise EXCEPT
                              !.i = noise.i + 1,
                              !.noisy_array =
                                  NoiseIteration(noise.noisy_array, noise.image_array,
                                                 noise.i, noise.noise_type, draw)]
            /\ error' = ""
    /\ UNCHANGED <<pc, classAttrs, attrs, cfg, files, X_data, y_data,
                   X_norm, y_norm, train_idx, test_idx, graph, call, local>>

\* line 189: return noisy_array
NoiseReturn ==
    /\ noise.at = "looping"
    /\ noise.i = noise.image_array.shape[1]
    /\ noise' = [noise EXCEPT !.at = "returned"]
    /\ UNCHANGED <<pc, error, classAttrs, attrs, cfg, files, X_data, y_data,
                   X_norm, y_norm, train_idx, test_idx, graph, call, local>>

---------------------------------------------------------------------------
(* process_data *)

Min(S) == CHOOSE m \in S : \A x \in S : m <= x
Max(S) == CHOOSE m \in S : \A x \in S : x <= m

\* MinMaxScaler().fit on a 2-D array: the minimum and maximum of every column
\* (column j is at position j + 1 of data_min and data_max)
Column(a, j) == {At(a, <<r, j>>) : r \in 0..(a.shape[1] - 1)}

FitMinMax(a) ==
    [data_min |-> Elements(LAMBDA k : Min(Column(a, k - 1)), 1, a.shape[2]),
     data_max |-> Elements(LAMBDA k : Max(Column(a, k - 1)), 1, a.shape[2])]

\* x * scale_ + min_ with scale_ = 1 / (max - min), and 1 for a constant column
Scaled(x, mn, mx) == IF mx = mn THEN RInt(x - mn) ELSE Rat(x - mn, mx - mn)

\* MinMaxScaler.transform
TransformMinMax(a, scaler) ==
    Array(a.shape,
          LAMBDA ix : Scaled(At(a, ix), scaler.data_min[ix[2] + 1],
                             scaler.data_max[ix[2] + 1]))

FitTransform(a) == TransformMinMax(a, FitMinMax(a))

\* line 204: the features as a table of pixels by channels
XTable(x) == Reshape(x, <<x.shape[1] * x.shape[2] * x.shape[3], x.shape[4]>>)

\* line 211: the targets as a table of (sample, timestep) by everything else
YTable(y) ==
    Reshape(y, <<y.shape[1] * y.shape[2], y.shape[3] * y.shape[4] * y.shape[5]>>)

NormalizeX(x) == Reshape(FitTransform(XTable(x)), x.shape)
NormalizeY(y) == Reshape(FitTransform(YTable(y)), y.shape)

\* the targets followed by a copy rotated the other way round
AugmentYOpposite(y, rotations) == Concat0(y, Rot90(y, 4 - rotations, 2, 3))

\* lines 194-197: the data followed by its rotated copy
AugmentX(x, rotations) == Concat0(x, Rot90(x, rotations, 1, 2))
AugmentY(y, rotations) == Concat0(y, Rot90(y, rotations, 2, 3))

\* the shift applied to every index, the first one included
ShiftedSamplesAll(t_samples) ==
    Elements(LAMBDA k : t_samples[k] - 1, 1, Len(t_samples))

\* line 214: ts = np.array(self.t_samples); ts[1:] -= 1
ShiftedSamples(t_samples) ==
    Elements(LAMBDA k : IF k = 1 THEN t_samples[k] ELSE t_samples[k] - 1,
             1, Len(t_samples))

\* whether y[:, ts] is within bounds for an axis of the given length
IndexableBy(ts, length) == \A k \in 1..Len(ts) : -length <= ts[k] /\ ts[k] < length

\* the value of n_subsample=None
None == -1

\* ceil(p * n) for a rational p
CeilMul(p, n) == -((-(p[1] * n)) \div p[2])

\* sklearn's sizes for a float test_size and no train_size
NTest(n, test_size) == CeilMul(test_size, n)
NTrain(n, test_size) == n - NTest(n, test_size)

\* every ordering of the elements of S
RECURSIVE Perms(_)
Perms(S) ==
    IF S = {} THEN {<<>>}
    ELSE UNION {{<<x>> \o p : p \in Perms(S \ {x})} : x \in S}

\* every sequence of k elements of S, repetitions allowed
RECURSIVE Repetitions(_, _)
Repetitions(S, k) ==
    IF k = 0 THEN {<<>>}
    ELSE UNION {{<<x>> \o p : p \in Repetitions(S, k - 1)} : x \in S}

\* every sequence of k distinct elements of S
RECURSIVE Arrangements(_, _)
Arrangements(S, k) ==
    IF k = 0 THEN {<<>>}
    ELSE UNION {{<<x>> \o p : p \in Arrangements(S \ {x}, k - 1)} : x \in S}

\* s[from .. to], zero-based and half-open like a Python slice
Slice(s, from, to) == Elements(LAMBDA k : s[from + k], 1, to - from)

\* line 217: np.random.choice(range(n), n_subsample, replace=False), or every
\* row in order when n_subsample is None
SubsampleDraws(n, n_subsample) ==
    IF n_subsample = None THEN {Elements(LAMBDA j : j - 1, 1, n)}
    ELSE Arrangements(0..(n - 1), n_subsample)

\* train_test_split of the rows idx: a random permutation of their positions,
\* its first n_test entries the test rows and the rest the train rows
TrainTestSplit(idx, perm, test_size) ==
    LET n_test == NTest(Len(idx), test_size)
        test   == Slice(perm, 0, n_test)
        train  == Slice(perm, n_test, Len(idx))
    IN  [train |-> Elements(LAMBDA j : idx[train[j] + 1], 1, Len(train)),
         test  |-> Elements(LAMBDA j : idx[test[j] + 1], 1, Len(test))]

\* lines 217-220: every outcome of the two random draws
SplitOutcomes(n, n_subsample, test_size) ==
    {TrainTestSplit(idx, perm, test_size) :
        idx \in SubsampleDraws(n, n_subsample),
        perm \in Perms(0..((IF n_subsample = None THEN n ELSE n_subsample) - 1))}

\* the draws process_data's noise is explored with: one draw for every channel
\* and sample
UniformRng(n, d) == [i \in 0..(n - 1) |-> [c \in 0..2 |-> d]]

\* process_data raises after X_norm and y_norm were bound (lines 206-211)
ProcessFails(exception) ==
    /\ pc' = "process_failed"
    /\ error' = exception
    /\ attrs' = Bind(attrs, {"X_norm", "y_norm"}, "ndarray")
    /\ UNCHANGED <<train_idx, test_idx>>

\* lines 213-220 for n rows and frame indices ts
SplitAndSubsample(n, ts, tsteps, n_subsample) ==
    IF n_subsample # None /\ n_subsample > n
    THEN ProcessFails("ValueError")   \* np.random.choice, replace=False
    ELSE IF ~IndexableBy(ts, tsteps)
    THEN ProcessFails("IndexError")   \* y_norm[:, ts]
    ELSE IF NTrain(IF n_subsample = None THEN n ELSE n_subsample, cfg.test_size) = 0
    THEN ProcessFails("ValueError")   \* train_test_split: empty train set
    ELSE \E split \in SplitOutcomes(n, n_subsample, cfg.test_size) :
            /\ test_idx' = split.test
            /\ train_idx' = split.train
            /\ pc' = "processed"
            /\ error' = ""
            /\ attrs' = Bind(attrs, {"X_norm", "y_norm", "X_train", "X_test",
                                     "y_train", "y_test"}, "ndarray")

\* lines 205-220 once xn and yn are computed
NoiseAndSplit(xn, yn, augment, rotations) ==
    \E add_noise \in BOOLEAN, d \in NoiseDraws, n_subsample \in {None} \cup 1..MaxSubsample :
       /\ (~add_noise => d = <<1, 2>>)
       /\ call' = [n_subsample |-> n_subsample, augment |-> augment,
                   rotations |-> rotations, add_noise |-> add_noise]
       /\ X_norm' = IF add_noise
                    THEN ApplyNoise(xn, "gaussian", UniformRng(xn.shape[1], d))
                    ELSE xn
       /\ y_norm' = yn
       /\ SplitAndSubsample(xn.shape[1], ShiftedSamples(cfg.t_samples),
                            yn.shape[2], n_subsample)

\* lines 202-220 for the (possibly augmented) x and y
NormalizeAndSplit(x, y, augment, rotations) ==
    NoiseAndSplit(NormalizeX(x), NormalizeY(y), augment, rotations)

\* proxy.process_data(n_subsample, augment, rotations, add_noise)
ProcessData ==
    /\ pc = "loaded"
    /\ \E augment \in BOOLEAN, rotations \in {1, 3} :
          /\ (~augment => rotations = 3)
          /\ NormalizeAndSplit(IF augment THEN AugmentX(X_data, rotations) ELSE X_data,
                               IF augment THEN AugmentY(y_data, rotations) ELSE y_data,
                               augment, rotations)
    /\ UNCHANGED <<classAttrs, cfg, files, X_data, y_data, noise, graph, local>>

\* no call of process_data is between its steps
NoLocal == [augment |-> FALSE, rotations |-> 0, x |-> Unbound, y |-> Unbound]

\* process_data in two steps.  Lines 191-201: the call is entered with augment
\* and rotations, and the locals x and y are bound
ProcessEnter ==
    /\ pc = "loaded"
    /\ \E augment \in BOOLEAN, rotations \in {1, 3} :
          /\ (~augment => rotations = 3)
          /\ local' = [augment |-> augment, rotations |-> rotations,
                       x |-> IF augment THEN AugmentX(X_data, rotations) ELSE X_data,
                       y |-> IF augment THEN AugmentY(y_data, rotations) ELSE y_data]
    /\ pc' = "augmented"
    /\ UNCHANGED <<error, classAttrs, attrs, cfg, files, X_data, y_data, X_norm, y_norm,
                   train_idx, test_idx, noise, graph, call>>

\* lines 202-224: the rest of the call on the locals, which end with it
ProcessFinish ==
    /\ pc = "augmented"
    /\ NormalizeAndSplit(local.x, local.y, local.augment, local.rotations)
    /\ local' = NoLocal
    /\ UNCHANGED <<classAttrs, cfg, files, X_data, y_data, noise, graph>>

\* lines 218/220: what train_test_split returns, as the rows it selected
X_train == TakeRows(X_norm, train_idx)
X_test  == TakeRows(X_norm, test_idx)
y_train == TakeRows(TakeAxis1(y_norm, ShiftedSamples(cfg.t_samples)), train_idx)
y_test  == TakeRows(TakeAxis1(y_norm, ShiftedSamples(cfg.t_samples)), test_idx)

---------------------------------------------------------------------------
(* The layer graph of make_model.  A symbolic tensor is                        *)
(* [shape, unit, frames, deps]: shape with the batch size first, unit whether  *)
(* every element is known to lie in [0, 1], deps the named tensors of the      *)
(* graph its values are computed from, frames one record [call, deps] for      *)
(* each slice of the time axis: the decoder call that produced the slice and   *)
(* the named tensors the slice is computed from (empty for a tensor without a  *)
(* time axis).                                                                 *)

cnn_filters == <<64, 128, 256>>
rnn_filters == <<256, 128, 64>>

Tensor(shape, unit, frames, deps) ==
    [shape |-> shape, unit |-> unit, frames |-> frames, deps |-> deps]

\* the tensor t bound to a name of make_model (z1, t0, ...): what reads the
\* name is computed from it
Named(t, name) == [t EXCEPT !.deps = @ \cup {name}]

SetItem(s, k, v) == Elements(LAMBDA j : IF j = k THEN v ELSE s[j], 1, Len(s))

\* Input(shape): a tensor of any batch size over the given sample shape
InputLayer(batch, shape) == Tensor(<<batch>> \o shape, FALSE, <<>>, {})

\* a 2-D convolution with padding='same' and stride 1 (Conv2D, SeparableConv2D):
\* only the channel count changes
ConvSame(t, filt) == Tensor(SetItem(t.shape, 4, filt), FALSE, <<>>, t.deps)

\* SqueezeExcite, GroupNormalization, PReLU, LeakyReLU, SpatialDropout2D keep the
\* shape; their output is not bounded
Elementwise(t) == Tensor(t.shape, FALSE, t.frames, t.deps)

\* MaxPooling2D(): 2x2 windows, stride 2, padding='valid'
MaxPooling2D(t) ==
    Tensor(SetItem(SetItem(t.shape, 2, t.shape[2] \div 2), 3, t.shape[3] \div 2),
           t.unit, <<>>, t.deps)

\* Conv2DTranspose(filt, kern, padding='same', strides=2)
Conv2DTranspose(t, filt) ==
    Tensor(<<t.shape[1], 2 * t.shape[2], 2 * t.shape[3], filt>>, FALSE, <<>>, t.deps)

\* ConvLSTM2D(filt, kern, padding='same') with return_sequences=False: the input
\* is a sequence of images, the output the last state, one image
ConvLSTM2D(t, filt) ==
    Tensor(<<t.shape[1], t.shape[3], t.shape[4], filt>>, FALSE, <<>>, t.deps)

\* Activation('sigmoid')
Sigmoid(t) == Tensor(t.shape, TRUE, t.frames, t.deps)

\* tf.expand_dims(t, 1): a time axis of length 1, its slice made by call k
ExpandDims1(t, k) ==
    Tensor(<<t.shape[1], 1>> \o Tail(t.shape), t.unit,
           <<[call |-> k, deps |-> t.deps]>>, t.deps)

\* whether Concatenate accepts a and b on the given axis (one-based position):
\* same rank and equal extents everywhere else
CanConcatenate(a, b, axis) ==
    /\ Len(a.shape) = Len(b.shape)
    /\ \A j \in 1..Len(a.shape) : j = axis \/ a.shape[j] = b.shape[j]

\* Concatenate(axis)([b, a]): the inputs in the other order
ConcatenateReversed(a, b, axis) ==
    Tensor(SetItem(a.shape, axis, a.shape[axis] + b.shape[axis]),
           a.unit /\ b.unit, b.frames \o a.frames, a.deps \cup b.deps)

\* Concatenate(axis)([a, b])
Concatenate(a, b, axis) ==
    Tensor(SetItem(a.shape, axis, a.shape[axis] + b.shape[axis]),
           a.unit /\ b.unit, a.frames \o b.frames, a.deps \cup b.deps)

\* encoder_layer(inp, filt)
encoder_layer(inp, filt) ==
    Elementwise(MaxPooling2D(Elementwise(Elementwise(Elementwise(ConvSame(inp, filt))))))

\* the part of recurrent_step before Concatenate()([y, res])
recurrent_step_up(inp, filt) ==
    Elementwise(Conv2DTranspose(Elementwise(Elementwise(ConvLSTM2D(inp, filt))), filt))

\* recurrent_step(inp, filt, res) when the concatenation is accepted
recurrent_step(inp, filt, res, k) ==
    ExpandDims1(Sigmoid(ConvSame(Concatenate(recurrent_step_up(inp, filt), res, 4),
                                 filt)), k)

\* recurrent_last with the filter count of its stage for the last convolution
recurrent_last_filt(inp, filt, y_channels, k) ==
    ExpandDims1(Sigmoid(ConvSame(recurrent_step_up(inp, filt), filt)), k)

\* recurrent_last(inp, filt): the last convolution maps to y_channels
recurrent_last(inp, filt, y_channels, k) ==
    ExpandDims1(Sigmoid(ConvSame(recurrent_step_up(inp, filt), y_channels)), k)

\* recurrent_decoder(z_input, residuals, previous_timestep) at call k; none is
\* TRUE for previous_timestep=None.  The result is [ok, out]: ok is FALSE when a
\* Concatenate layer rejects its inputs (ValueError)
recurrent_decoder(z_input, res0, res1, none, previous_timestep, y_channels, k) ==
    LET s0  == ExpandDims1(z_input, k)
        ok1 == CanConcatenate(recurrent_step_up(s0, rnn_filters[1]), res0, 4)
        s1  == recurrent_step(s0, rnn_filters[1], res0, k)
        ok2 == CanConcatenate(recurrent_step_up(s1, rnn_filters[2]), res1, 4)
        s2  == recurrent_step(s1, rnn_filters[2], res1, k)
        s3  == recurrent_last(s2, rnn_filters[3], y_channels, k)
    IN  IF ~ok1 \/ ~ok2 THEN [ok |-> FALSE, out |-> s0]
        ELSE IF none THEN [ok |-> TRUE, out |-> s3]
        ELSE IF ~CanConcatenate(previous_timestep, s3, 2) THEN [ok |-> FALSE, out |-> s3]
        ELSE [ok |-> TRUE, out |-> Concatenate(previous_timestep, s3, 2)]

\* the index of the last decoder call of make_model (t0 .. t10)
LastCall == 10

NoTensor == Tensor(<<>>, FALSE, <<>>, {})

\* the image sides the graph is built for: the default 64, a smaller one that
\* halves three times, and one that the skip connections do not fit
ImageSides == {64, 32, 20}

\* lines 145-148: the input and the three encoder stages
MakeEncoder ==
    /\ graph.at = "start"
    /\ LET inp == Named(InputLayer(graph.X_train[1], Tail(graph.X_train)), <<"inp", 0>>)
           z1  == Named(encoder_layer(inp, cnn_filters[1]), <<"z", 1>>)
           z2  == Named(encoder_layer(z1, cnn_filters[2]), <<"z", 2>>)
           z3  == Named(encoder_layer(z2, cnn_filters[3]), <<"z", 3>>)
       IN  graph' = [graph EXCEPT !.at = "decoding", !.inp = inp,
                                  !.z1 = z1, !.z2 = z2, !.z3 = z3]
    /\ UNCHANGED <<pc, error, classAttrs, attrs, cfg, files, X_data, y_data,
                   X_norm, y_norm, train_idx, test_idx, noise, call, local>>

\* lines 149-159: the next call of recurrent_decoder, on the result of the last
DecoderCall ==
    /\ graph.at = "decoding"
    /\ graph.k <= LastCall
    /\ LET r == recurrent_decoder(graph.z3, graph.z2, graph.z1, graph.k = 0,
                                  graph.t, cfg.y_channels, graph.k)
       IN  IF r.ok
           THEN /\ graph' = [graph EXCEPT !.t = Named(r.out, <<"t", graph.k>>),
                                           !.k = graph.k + 1]
                /\ error' = ""
           ELSE /\ graph' = [graph EXCEPT !.at = "failed"]
                /\ error' = "ValueError"
    /\ UNCHANGED <<pc, classAttrs, attrs, cfg, files, X_data, y_data,
                   X_norm, y_norm, train_idx, test_idx, noise, call, local>>

\* lines 160-163: the models over the graph; self.model maps inp to t10
BuildModels ==
    /\ graph.at = "decoding"
    /\ graph.k = LastCall + 1
    /\ graph' = [graph EXCEPT !.at = "built", !.model = graph.t]
    /\ attrs' = Bind(attrs, {"latent1", "latent2", "encoder", "model"}, "Model")
    /\ UNCHANGED <<pc, error, classAttrs, cfg, files, X_data, y_data,
                   X_norm, y_norm, train_idx, test_idx, noise, call, local>>

\* before make_model: the instance holds an X_train of the given shape
GraphStart(shape) ==
    [at |-> "start", X_train |-> shape, k |-> 0, inp |-> NoTensor, z1 |-> NoTensor,
     z2 |-> NoTensor, z3 |-> NoTensor, t |-> NoTensor, model |-> NoTensor]

NoGraph == GraphStart(<<>>)

---------------------------------------------------------------------------

NoAttrs == [a \in {} |-> ""]

\* process_data was not called yet
NoCall == [n_subsample |-> None, augment |-> FALSE, rotations |-> 0,
           add_noise |-> FALSE]

Init ==
    /\ pc = "new"
    /\ error = ""
    /\ classAttrs \in {ClassMethods, ClassMethods \cup {"custom_loss"}}
    /\ attrs = NoAttrs
    /\ cfg = DefaultConfig
    /\ files \in FileSystems
    /\ X_data = Unbound
    /\ y_data = Unbound
    /\ X_norm = Unbound
    /\ y_norm = Unbound
    /\ train_idx = <<>>
    /\ test_idx = <<>>
    /\ noise = NoNoise
    /\ graph = NoGraph
    /\ call = NoCall
    /\ local = NoLocal

Next ==
    \/ Construct
    \/ Configure
    \/ LoadData
    \/ Reload
    \/ ProcessData

Spec == Init /\ [][Next]_vars

\* make_model on an instance whose X_train holds batch images of side by side
\* pixels and x_channels channels
InitModel ==
    /\ pc = "processed"
    /\ error = ""
    /\ classAttrs = ClassMethods \cup {"custom_loss"}
    /\ attrs = Bind(AttrsBeforeCriterion @@ AttrsFromCriterion,
                    {"X_data", "y_data", "X_norm", "y_norm", "X_train", "X_test",
                     "y_train", "y_test"}, "ndarray")
    /\ cfg = DefaultConfig
    /\ files = <<>>
    /\ X_data = Unbound
    /\ y_data = Unbound
    /\ X_norm = Unbound
    /\ y_norm = Unbound
    /\ train_idx = <<>>
    /\ test_idx = <<>>
    /\ noise = NoNoise
    /\ \E batch \in 1..MaxBatch, side \in ImageSides :
          graph = GraphStart(<<batch, side, side, cfg.x_channels>>)
    /\ call = NoCall
    /\ local = NoLocal

NextModel ==
    \/ MakeEncoder
    \/ DecoderCall
    \/ BuildModels

SpecModel == InitModel /\ [][NextModel]_vars

\* apply_noise called on a constructed instance with an image array and a
\* noise type, one of random_noise's modes or a name it does not know
InitNoise ==
    /\ pc = "constructed"
    /\ error = ""
    /\ classAttrs = ClassMethods \cup {"custom_loss"}
    /\ attrs = AttrsBeforeCriterion @@ AttrsFromCriterion
    /\ cfg = DefaultConfig
    /\ files = <<>>
    /\ X_data = Unbound
    /\ y_data = Unbound
    /\ X_norm = Unbound
    /\ y_norm = Unbound
    /\ train_idx = <<>>
    /\ test_idx = <<>>
    /\ graph = NoGraph
    /\ call = NoCall
    /\ local = NoLocal
    /\ \E image_array \in NoiseImages, noise_type \in NoiseTypes \cup {"blur"} :
          noise = [NoNoise EXCEPT !.at = "called", !.image_array = image_array,
                                  !.noise_type = noise_type]

NextNoise ==
    \/ NoiseEnter
    \/ NoisePass
    \/ NoiseReturn

SpecNoise == InitNoise /\ [][NextNoise]_vars

\* process_data, step by step, on an instance that loaded a dataset written for
\* its configuration
InitAugment ==
    /\ pc = "loaded"
    /\ error = ""
    /\ classAttrs = ClassMethods \cup {"custom_loss"}
    /\ attrs = Bind(AttrsBeforeCriterion @@ AttrsFromCriterion,
                    {"X_data", "y_data"}, "ndarray")
    /\ \E c \in Configs, g \in Generators :
          \E fault \in Faults(c) :
             /\ LoopError(Dataset(g, c, fault), c, 0) = ""
             /\ cfg = c
             /\ files = Dataset(g, c, fault)
             /\ X_data = MoveAxisLast(LoadedX(Dataset(g, c, fault), c), 1)
             /\ y_data = MoveAxisLast(LoadedY(Dataset(g, c, fault), c), 2)
    /\ X_norm = Unbound
    /\ y_norm = Unbound
    /\ train_idx = <<>>
    /\ test_idx = <<>>
    /\ noise = NoNoise
    /\ graph = NoGraph
    /\ call = NoCall
    /\ local = NoLocal

NextAugment ==
    \/ ProcessEnter
    \/ ProcessFinish

SpecAugment == InitAugment /\ [][NextAugment]_vars

---------------------------------------------------------------------------
(* Properties of make_model *)

\* make_model has run to its end, by building the models or by raising
ModelEnded == graph.at \in {"built", "failed"}

\* C1: for every batch size N, make_model on inputs of shape (N, 64, 64, 4)
\* builds a model (no layer rejects its inputs) whose output has shape exactly
\* (N, 11, 64, 64, 2) and whose every value lies in [0, 1]
C1_OutputShape ==
    \A N \in 1..MaxBatch :
        (ModelEnded /\ graph.X_train = <<N, 64, 64, 4>>) =>
            /\ graph.at = "built"
            /\ graph.model.shape = <<N, 11, 64, 64, 2>>
            /\ graph.model.unit

\* a model built for a batch of more than one 64 x 64 x 4 image
C1_Witness ==
    /\ graph.at = "built"
    /\ graph.X_train = <<MaxBatch, 64, 64, 4>>
    /\ Len(graph.model.frames) = LastCall + 1

---------------------------------------------------------------------------
(* Properties of apply_noise *)

WellChannel(a) == {ix \in Indices(a.shape) : ix[4] = a.shape[4] - 1}

\* C2: for every supported noise type, the last channel of the array
\* apply_noise returns equals, element for element and for all samples, the last
\* channel of image_array
C2_WellChannelKept ==
    (noise.at = "returned" /\ noise.noise_type \in NoiseTypes) =>
        /\ noise.noisy_array.shape = noise.image_array.shape
        /\ \A ix \in WellChannel(noise.image_array) :
              At(noise.noisy_array, ix) = At(noise.image_array, ix)

\* a returned array of several samples whose non-well channels were perturbed
\* and whose well channel holds values outside [0, 1]
C2_Witness ==
    /\ noise.at = "returned"
    /\ noise.noise_type = "gaussian"
    /\ noise.image_array.shape[1] = MaxSamples
    /\ noise.image_array.shape[4] = 3
    /\ \E ix \in Indices(noise.image_array.shape) :
          At(noise.noisy_array, ix) # At(noise.image_array, ix)
    /\ \E ix \in WellChannel(noise.image_array) :
          ~RLeq(At(noise.image_array, ix), ROne)

---------------------------------------------------------------------------
(* Properties of the data pipeline *)

Processed == pc = "processed"

\* process_data ran on the loaded arrays as they are, without the rotated copy
Unaugmented == Processed /\ ~call.augment

\* the values of channel c of array a (the channel is the last axis)
ChannelValues(a, c) ==
    {At(a, ix) : ix \in {jx \in Indices(a.shape) : jx[Len(a.shape)] = c}}

Channels(a) == 0..(a.shape[Len(a.shape)] - 1)

\* C3: after process_data, any two target entries of the same channel with
\* equal raw values have equal normalized values (one minimum and one maximum
\* per channel)
C3_GlobalPerChannel ==
    Unaugmented =>
        \A ix \in Indices(y_data.shape), jx \in Indices(y_data.shape) :
            (ix[5] = jx[5] /\ At(y_data, ix) = At(y_data, jx))
                => At(y_norm, ix) = At(y_norm, jx)

\* every value of channel c of the normalized array lies in [0, 1], and 0 and 1
\* both occur unless the raw channel is constant
UnitChannel(normalized, raw, c) ==
    LET values == ChannelValues(normalized, c)
    IN  /\ \A v \in values : RLeq(RZero, v) /\ RLeq(v, ROne)
        /\ Cardinality(ChannelValues(raw, c)) > 1 => (RZero \in values /\ ROne \in values)

\* the inputs' half of C4
UnitInputs == \A c \in Channels(X_norm) : UnitChannel(X_norm, X_data, c)

\* C4: after process_data with add_noise=False, every channel of the
\* normalized inputs and of the normalized targets lies in [0, 1] and, unless the
\* channel is constant over the dataset, has an element 0 and an element 1
C4_UnitRangeAttained ==
    (Processed /\ ~call.add_noise) =>
        /\ UnitInputs
        /\ \A c \in Channels(y_norm) : UnitChannel(y_norm, y_data, c)

\* C5: after process_data the instance holds the scalers (their minimum and
\* maximum) that normalized the inputs and the targets
C5_ScalersRetained ==
    Processed => \E a \in DOMAIN attrs : attrs[a] = "MinMaxScaler"

\* the target frames the default t_samples select
DefaultFrames == <<0, 5, 11, 17, 23, 29, 35, 41, 47, 53, 59>>

\* rows[r] of y_norm at frames[k] is row r, frame k of selected
SelectsFrames(selected, rows, frames) ==
    /\ selected.shape[1] = Len(rows)
    /\ selected.shape[2] = Len(frames)
    /\ \A ix \in Indices(selected.shape) :
          At(selected, ix)
              = At(y_norm, <<rows[ix[1] + 1], frames[ix[2] + 1]>> \o Tail(Tail(ix)))

\* C6: process_data keeps the first index of t_samples and shifts every later
\* one by -1, so [0, 6, ..., 60] selects frames [0, 5, 11, ..., 59], and these
\* frames of the split rows are the training and test targets
C6_ShiftedFrames ==
    Processed =>
        LET ts == ShiftedSamples(cfg.t_samples)
        IN  /\ ts[1] = cfg.t_samples[1]
            /\ \A k \in 2..Len(ts) : ts[k] = cfg.t_samples[k] - 1
            /\ cfg.t_samples = DefaultConfig.t_samples =>
                  /\ ts = DefaultFrames
                  /\ SelectsFrames(y_train, train_idx, DefaultFrames)
                  /\ SelectsFrames(y_test, test_idx, DefaultFrames)

\* the default time axis processed into train and test targets whose frames 5
\* and 6 differ
C6_Witness ==
    /\ Processed
    /\ cfg.t_samples = DefaultConfig.t_samples
    /\ cfg.timesteps = 60
    /\ Len(train_idx) > 0
    /\ Len(test_idx) > 0
    /\ At(y_norm, <<0, 5, 0, 0, 0>>) # At(y_norm, <<0, 6, 0, 0, 0>>)

\* the samples the configuration asks load_data for
Samples == 0..(cfg.n_samples - 1)

\* C7: when load_data succeeds, every sample's files had exactly the declared
\* shapes (a file of another shape fails the load; none is broadcast)
C7_ShapeMismatchRejected ==
    pc = "loaded" =>
        \A i \in Samples :
            /\ FileAt(files, i, "x").arr.shape = XFileShape(cfg)
            /\ FileAt(files, i, "y").arr.shape = YFileShape(cfg)

SomeFileMissing(fs) ==
    \E i \in Samples, which \in {"x", "y"} : ~FileAt(fs, i, which).present

\* C8: a call of load_data while a file of some sample in 0..n_samples-1 is
\* missing fails, and leaves X_data, y_data and the instance's attributes as
\* they were before the call
C8_MissingFileFails ==
    [][((LoadData \/ Reload) /\ SomeFileMissing(files'))
          => /\ pc' = "load_failed"
             /\ error' # ""
             /\ X_data' = X_data
             /\ y_data' = y_data
             /\ attrs' = attrs]_vars

\* a load that failed on a missing file after an earlier load had published
\* its arrays
C8_Witness ==
    /\ pc = "load_failed"
    /\ error = "FileNotFoundError"
    /\ SomeFileMissing(files)
    /\ X_data # Unbound
    /\ y_data # Unbound

\* C9: the constructor installs a criterion (self.criterion is bound when
\* __init__ has ended)
C9_CriterionInstalled ==
    pc # "new" => ("criterion" \in DOMAIN attrs /\ error # "AttributeError")

IsInjective(s) == \A j \in DOMAIN s, k \in DOMAIN s : s[j] = s[k] => j = k

Range(s) == {s[k] : k \in DOMAIN s}

\* C10: after process_data the split covers n_subsample rows when it is given
\* and every row otherwise; the test set is the fraction test_size of them within
\* one sample; no row index is in both sets or twice in one
C10_SplitSizes ==
    Processed =>
        LET n_test == Len(test_idx)
            n      == Len(train_idx) + n_test
        IN  /\ n = IF call.n_subsample = None THEN X_norm.shape[1] ELSE call.n_subsample
            /\ Abs(cfg.test_size[2] * n_test - cfg.test_size[1] * n) < cfg.test_size[2]
            /\ Range(train_idx) \cap Range(test_idx) = {}
            /\ IsInjective(train_idx \o test_idx)
            /\ Range(train_idx \o test_idx) \subseteq 0..(X_norm.shape[1] - 1)

\* a pool of MaxSubsample rows drawn from more rows and split into a test and
\* a train set
C10_Witness ==
    /\ Processed
    /\ call.n_subsample = MaxSubsample
    /\ X_norm.shape[1] > MaxSubsample
    /\ Len(test_idx) = 1
    /\ Len(train_idx) = MaxSubsample - 1

---------------------------------------------------------------------------
(* Properties of the rollout *)

\* the running sequence: the time slices of the last decoder call's result
Rollout == graph.t.frames

\* C11: for every step k > 0 the frame produced at step k is computed from the
\* output of step k-1 (not only from z3, z2 and z1)
C11_Autoregressive ==
    \A j \in 1..Len(Rollout) :
        Rollout[j].call > 0 => <<"t", Rollout[j].call - 1>> \in Rollout[j].deps

\* what every frame of the rollout is computed from
FrameSources == {<<"inp", 0>>, <<"z", 1>>, <<"z", 2>>, <<"z", 3>>}

FramesFromLatents == \A j \in 1..Len(Rollout) : Rollout[j].deps = FrameSources

\* a decoder call returned: the step from before call k to after it
DecoderStep == graph.at = "decoding" /\ graph'.at = "decoding" /\ graph'.k = graph.k + 1

\* C12: step 0 starts from no prior sequence, and after every step k the
\* running sequence has exactly k+1 frames: the frames it had before the step,
\* unchanged and in the same order, then the frame produced at step k
C12_RolloutGrows ==
    [][DecoderStep =>
          /\ graph.k = 0 => Rollout = <<>>
          /\ Len(Rollout) = graph.k
          /\ Len(Rollout') = graph.k + 1
          /\ graph'.t.shape[2] = graph.k + 1
          /\ SubSeq(Rollout', 1, graph.k) = Rollout
          /\ Rollout'[graph.k + 1].call = graph.k]_vars

\* the rollout after the last step: the frames of steps 0 .. LastCall in order
C12_Witness ==
    /\ graph.at = "decoding"
    /\ graph.k = LastCall + 1
    /\ Len(Rollout) = LastCall + 1
    /\ \A j \in 1..Len(Rollout) : Rollout[j].call = j - 1

---------------------------------------------------------------------------
(* Properties of the augmentation *)

\* where the pixel at <<h, w>> of a height x width image is after k
\* counterclockwise quarter turns
Turned(h, w, height, width, k) ==
    IF k % 4 = 0 THEN <<h, w>>
    ELSE IF k % 4 = 1 THEN <<width - 1 - w, h>>
    ELSE IF k % 4 = 2 THEN <<height - 1 - h, width - 1 - w>>
    ELSE <<w, height - 1 - h>>

\* x and y are the loaded arrays followed, at the same row offset, by copies in
\* which the pixel of every sample that started at (h, w) is at Turned(h, w)
SameRotation(x, y, k) ==
    LET n == X_data.shape[1]
        height == X_data.shape[2]
        width  == X_data.shape[3]
    IN  /\ x.shape[1] = 2 * n
        /\ y.shape[1] = 2 * n
        /\ \A ix \in Indices(X_data.shape) :
              /\ At(x, ix) = At(X_data, ix)
              /\ At(x, <<n + ix[1]>> \o Turned(ix[2], ix[3], height, width, k) \o <<ix[4]>>)
                    = At(X_data, ix)
        /\ \A iy \in Indices(y_data.shape) :
              /\ At(y, iy) = At(y_data, iy)
              /\ At(y, <<n + iy[1], iy[2]>> \o Turned(iy[3], iy[4], height, width, k)
                       \o <<iy[5]>>)
                    = At(y_data, iy)

\* C13: with augment=True the locals of process_data are the loaded samples
\* followed by one rotated copy of each, twice as many rows in the inputs and
\* in the targets, the copy of sample i at the same row of both, and the input
\* pixel and the target pixels (every timestep and channel) that started at
\* (h, w) at the same rotated position; the normalized arrays keep the doubled
\* number of rows
C13_SameRotation ==
    /\ (pc = "augmented" /\ local.augment) =>
          SameRotation(local.x, local.y, local.rotations)
    /\ (Processed /\ call.augment) =>
          /\ X_norm.shape[1] = 2 * X_data.shape[1]
          /\ y_norm.shape[1] = 2 * y_data.shape[1]

\* an augmented corpus of images of more than one pixel whose pixels differ, so
\* that a rotation moves values
C13_Witness ==
    /\ pc = "augmented"
    /\ local.augment
    /\ local.rotations = 1
    /\ X_data.shape[1] = MaxSamples
    /\ X_data.shape[2] > 1
    /\ At(y_data, <<0, 0, 0, 0, 0>>) # At(y_data, <<0, 0, 0, 1, 0>>)
    /\ At(y_data, <<0, 0, 0, 0, 0>>) # At(y_data, <<0, 0, 1, 0, 0>>)

====
